---- MODULE Spec2Model ----
(***************************************************************************)
(* Model of GHtoSAM_LK.py: a Grasshopper script that validates three       *)
(* collections of Rhino geometry (trees, arrays, buildings), encodes them  *)
(* as LK script statements and optionally writes the script to a file.     *)
(*                                                                         *)
(* The geometry kernel (Rhino.Geometry) is a black box.  Each element      *)
(* carries the answers the kernel gives to the queries the script makes:   *)
(* its type, Faces.Count, IsValid, the success flag of ClosestPoint for    *)
(* the area centroid, the normal there, and the edge-curve lengths.        *)
(* Text is modelled as a sequence of statements, string concatenation as   *)
(* sequence concatenation, and "" as the empty sequence.                   *)
(***************************************************************************)
EXTENDS Integers, Sequences, FiniteSets, TLC

\* ------------------------------------------------------------------ bounds
MaxTotal == 3   \* elements over the three input collections together
MaxRuns  == 2   \* executions of the script on the same inputs
MaxCoord == 3   \* normals range over the integer grid -MaxCoord..MaxCoord

\* ---------------------------------------------------------------- geometry
\* Angles are carried in ticks of 45 degrees: the kernel returns the angle
\* with finite precision, and the tick is the resolution of this model.
TickDeg  == 45
PiTicks  == 4

\* tan(22.5 deg)^2 = 3 - 2*sqrt(2): P / Q < 3 - 2*sqrt(2), decided exactly.
BelowFirstHalfTick(P, Q) == 3 * Q - P > 0 /\ (3 * Q - P) * (3 * Q - P) > 8 * Q * Q

\* tan(67.5 deg)^2 = 3 + 2*sqrt(2): P / Q > 3 + 2*sqrt(2), decided exactly.
AboveLastHalfTick(P, Q) == P - 3 * Q > 0 /\ (P - 3 * Q) * (P - 3 * Q) > 8 * Q * Q

\* The angle atan2(sqrt(P), q) in [0, pi], rounded to the nearest tick.
AcuteTicks(P, Q) ==
    IF BelowFirstHalfTick(P, Q) THEN 0
    ELSE IF AboveLastHalfTick(P, Q) THEN 2
    ELSE 1

\* rg.Vector3d.VectorAngle(a, b) for b a coordinate axis: P is the squared
\* length of the part of a orthogonal to b, q the component of a along b.
VectorAngle(P, q) ==
    IF q = 0 THEN 2
    ELSE IF q > 0 THEN AcuteTicks(P, q * q)
    ELSE PiTicks - AcuteTicks(P, q * q)

\* math.degrees
degrees(t) == t * TickDeg

\* ------------------------------------------------------------ input values
Vec(x, y, z) == [X |-> x, Y |-> y, Z |-> z]

NUp   == Vec(1, 0, 1)
NDown == Vec(0, 1, -1)

Point3d(x, y) == [kind |-> "Point3d", X |-> x, Y |-> y]
NotAPoint     == [kind |-> "Surface", X |-> 0, Y |-> 0]

TreeElems == {Point3d(1, 2), NotAPoint}

Geom(k, f, v, c, n) ==
    [kind |-> k, faces |-> f, IsValid |-> v, cp |-> c, normal |-> n, edges |-> <<3, 2>>]

ArrayElems ==
    { Geom("Surface", 1, TRUE, TRUE, NUp),
      Geom("Surface", 1, TRUE, TRUE, NDown),
      Geom("Surface", 1, TRUE, FALSE, NDown),
      Geom("Surface", 1, FALSE, TRUE, NUp),
      Geom("Brep", 1, TRUE, TRUE, NUp),
      Geom("Brep", 2, TRUE, TRUE, NUp),
      Geom("Brep", 0, TRUE, FALSE, NUp),
      Geom("Point3d", 0, TRUE, TRUE, NUp) }

Box(v) ==
    [kind |-> "Box", IsValid |-> v, Center |-> Vec(5, 10, 0), dims |-> <<4, 6, 8>>,
     XAxis |-> Vec(1, 0, 0)]
NotABox ==
    [kind |-> "Brep", IsValid |-> TRUE, Center |-> Vec(0, 0, 0), dims |-> <<0, 0, 0>>,
     XAxis |-> Vec(1, 0, 0)]

BuildingElems == {Box(TRUE), Box(FALSE), NotABox}

\* A collection input: a list, or a value that is not iterable.
List(s)     == [iter |-> TRUE, items |-> s]
NotIterable == [iter |-> FALSE, items |-> <<>>]

\* ------------------------------------------------------------------- paths
Path(a, p)  == [set |-> TRUE, abs |-> a, parts |-> p]
NonePath    == [set |-> FALSE, abs |-> FALSE, parts |-> <<>>]
EmptyPath   == Path(FALSE, <<>>)
DefaultPath == Path(FALSE, <<"3DShading.lk">>)
Cwd         == <<"home", "gh">>

InputPaths ==
    {NonePath, EmptyPath, Path(FALSE, <<".", "out.lk">>), Path(TRUE, <<"tmp", "out.lk">>)}

\* Python truthiness of a path value: None and "" are falsy.
Truthy(p) == p.set /\ (p.abs \/ p.parts # <<>>)

RECURSIVE normparts(_, _)
normparts(parts, acc) ==
    IF parts = <<>> THEN acc
    ELSE IF Head(parts) = "." THEN normparts(Tail(parts), acc)
    ELSE IF Head(parts) = ".." THEN
        normparts(Tail(parts), IF acc = <<>> THEN acc ELSE SubSeq(acc, 1, Len(acc) - 1))
    ELSE normparts(Tail(parts), Append(acc, Head(parts)))

\* os.path.abspath: join with the working directory, then normalise.
abspath(p) ==
    IF p.abs THEN Path(TRUE, normparts(p.parts, <<>>))
    ELSE Path(TRUE, normparts(Cwd \o p.parts, <<>>))

\* -------------------------------------------------------------- validation
Msg(t, i) == [text |-> t, index |-> i]
NoIndex   == 0 - 1

Seen(c, i) == [coll |-> c, index |-> i]
Verdict(ok, printed, examined) == [ok |-> ok, printed |-> printed, examined |-> examined]

\* Lines 32-34: a Brep with exactly one face is replaced by that face's surface.
to_surface(array) ==
    IF array.kind = "Brep" /\ array.faces = 1 THEN [array EXCEPT !.kind = "Surface"]
    ELSE array

\* The body of the arrays loop: the text of the error it prints, "" for none.
check_array_NoNormal(array) ==
    IF array.kind \notin {"Surface", "Brep"} THEN "Array is not a Rhino Surface or Brep"
    ELSE IF ~to_surface(array).IsValid THEN "Surface is not valid"
    ELSE ""

check_array(array) ==
    IF array.kind \notin {"Surface", "Brep"} THEN "Array is not a Rhino Surface or Brep"
    ELSE LET surface == to_surface(array) IN
         IF ~surface.IsValid THEN "Surface is not valid"
         ELSE IF surface.cp /\ surface.normal.Z < 0
              THEN "Surface has a normal pointing in a negative direction"
         ELSE ""

\* The body of the trees loop.
check_tree(tree) ==
    IF tree.kind # "Point3d" THEN "Tree is not a Rhino Point3d" ELSE ""

\* The body of the buildings loop.
check_building_NoValidity(building) ==
    IF building.kind # "Box" THEN "Building is not a Rhino Box" ELSE ""

check_building(building) ==
    IF building.kind # "Box" THEN "Building is not a Rhino Box"
    ELSE IF ~building.IsValid THEN "Building is not a valid Box"
    ELSE ""

check_element(coll, e) ==
    IF coll = "trees" THEN check_tree(e)
    ELSE IF coll = "arrays" THEN check_array(e)
    ELSE check_building(e)

\* for i, e in enumerate(items): examine e, print and return False on an error.
RECURSIVE check_loop(_, _, _, _)
check_loop(coll, items, i, examined) ==
    IF i > Len(items) THEN Verdict(TRUE, <<>>, examined)
    ELSE LET err  == check_element(coll, items[i])
             seen == Append(examined, Seen(coll, i - 1))
         IN  IF err # "" THEN Verdict(FALSE, <<Msg(err, i - 1)>>, seen)
             ELSE check_loop(coll, items, i + 1, seen)

validate_inputs_ArraysFirst(trees, arrays, buildings) ==
    IF ~(trees.iter /\ arrays.iter /\ buildings.iter)
    THEN Verdict(FALSE, <<Msg("One of the inputs is not iterable", NoIndex)>>, <<>>)
    ELSE LET a == check_loop("arrays", arrays.items, 1, <<>>) IN
         IF ~a.ok THEN a
         ELSE LET t == check_loop("trees", trees.items, 1, a.examined) IN
              IF ~t.ok THEN t
              ELSE check_loop("buildings", buildings.items, 1, t.examined)

validate_inputs(trees, arrays, buildings) ==
    IF ~(trees.iter /\ arrays.iter /\ buildings.iter)
    THEN Verdict(FALSE, <<Msg("One of the inputs is not iterable", NoIndex)>>, <<>>)
    ELSE LET t == check_loop("trees", trees.items, 1, <<>>) IN
         IF ~t.ok THEN t
         ELSE LET a == check_loop("arrays", arrays.items, 1, t.examined) IN
              IF ~a.ok THEN a
              ELSE check_loop("buildings", buildings.items, 1, a.examined)

\* ---------------------------------------------------------------- encoders
\* One line of LK script.
Stmt(s, c, n, i, a) == [stmt |-> s, cat |-> c, name |-> n, index |-> i, attrs |-> a]
Create(c)           == Stmt("create", c, "", NoIndex, <<>>)
Property(c, n, i, a) == Stmt("property", c, n, i, a)

ClearScene  == <<Stmt("clear_scene", "", "", NoIndex, <<>>)>>
Placeholder == <<Stmt("Please check inputs", "", "", NoIndex, <<>>)>>

\* edge_curves[1] is the width and edge_curves[0] the length (0-based).
get_trimming_rectangle_dimensions(surface) ==
    [width |-> surface.edges[2], length |-> surface.edges[1]]

azimuth_of(normal) ==
    LET raw == VectorAngle(normal.X * normal.X, normal.Y)
    IN  degrees(IF normal.X < 0 THEN 2 * PiTicks - raw ELSE raw)

tilt_of(normal) ==
    degrees(VectorAngle(normal.X * normal.X + normal.Y * normal.Y, normal.Z))

surface_to_panel_NoSkip(surface, i) ==
    LET d == get_trimming_rectangle_dimensions(surface) IN
    << Create("Active surface"),
       Property("Active surface", "Panel", i,
                <<d.width, d.length, azimuth_of(surface.normal), tilt_of(surface.normal)>>) >>

surface_to_panel(surface, i) ==
    IF ~surface.cp THEN <<>>
    ELSE LET d == get_trimming_rectangle_dimensions(surface) IN
         << Create("Active surface"),
            Property("Active surface", "Panel", i,
                     <<d.width, d.length, azimuth_of(surface.normal), tilt_of(surface.normal)>>) >>

box_to_building(box, i) ==
    LET rotation ==
            degrees(VectorAngle(box.XAxis.Y * box.XAxis.Y + box.XAxis.Z * box.XAxis.Z,
                                box.XAxis.X))
    IN  << Create("Box"),
           Property("Box", "Building", i,
                    <<box.Center.X, box.Center.Y, 0, box.dims[1], box.dims[2], box.dims[3],
                      rotation>>) >>

point_to_tree(point, i) ==
    << Create("Tree"), Property("Tree", "Tree", i, <<point.X, point.Y, 0, 20, 20, 8, 8>>) >>

encode(fn, e, i) ==
    IF fn = "surface_to_panel" THEN surface_to_panel(e, i)
    ELSE IF fn = "box_to_building" THEN box_to_building(e, i)
    ELSE point_to_tree(e, i)

\* for i, e in enumerate(items): lkscript += fn(e, i)
RECURSIVE encode_loop(_, _, _)
encode_loop(fn, items, i) ==
    IF i > Len(items) THEN <<>>
    ELSE encode(fn, items[i], i - 1) \o encode_loop(fn, items, i + 1)

\* The encoder invocations of one loop, in order.
call_loop(fn, items) == [i \in 1..Len(items) |-> [fn |-> fn, index |-> i - 1]]

assemble_TreesFirst(trees, arrays, buildings) ==
    ClearScene
        \o encode_loop("surface_to_panel", arrays.items, 1)
        \o encode_loop("point_to_tree", trees.items, 1)
        \o encode_loop("box_to_building", buildings.items, 1)

\* Lines 144-152.
assemble(trees, arrays, buildings) ==
    ClearScene
        \o encode_loop("surface_to_panel", arrays.items, 1)
        \o encode_loop("box_to_building", buildings.items, 1)
        \o encode_loop("point_to_tree", trees.items, 1)

assemble_calls(trees, arrays, buildings) ==
    call_loop("surface_to_panel", arrays.items)
        \o call_loop("box_to_building", buildings.items)
        \o call_loop("point_to_tree", trees.items)

\* ------------------------------------------------------------------ files
NoFile  == <<>>
OldFile == <<Stmt("previous content", "", "", NoIndex, <<>>)>>

Targets == {abspath(IF Truthy(p) THEN p ELSE DefaultPath) : p \in InputPaths}

write_file_Append(fs, path, text) == [fs EXCEPT ![path] = @ \o text]

\* open(path, 'w') followed by f.write(text).
write_file(fs, path, text) == [fs EXCEPT ![path] = text]

\* The value of the output lk_path: a path, or the sentinel string.
Reported(p) == [is |-> "path", path |-> p]
NotWritten  == [is |-> "_write_lk not set to True", path |-> NonePath]
Unassigned  == [is |-> "unassigned", path |-> NonePath]

\* ------------------------------------------------------------------ state
VARIABLES
    trees, arrays, buildings,   \* the three input collections
    in_lk_path,                 \* the target path the host supplies
    _lk_path,                   \* the script's variable _lk_path
    _write_lk,                  \* the write flag
    pc,                         \* position in the script
    valid,                      \* the result of validate_inputs
    lkscript,                   \* the assembled document
    full_path,                  \* os.path.abspath(_lk_path)
    lk_path,                    \* the path value reported to the caller
    files,                      \* the content of each file
    before,                     \* the files when the current run started
    printed,                    \* the messages printed by the current run
    examined,                   \* the elements validate_inputs looked at
    calls,                      \* the encoder invocations of the current run
    runs                        \* the number of the current run

inputs == <<trees, arrays, buildings, in_lk_path, _write_lk>>
vars == <<trees, arrays, buildings, in_lk_path, _lk_path, _write_lk, pc, valid, lkscript,
          full_path, lk_path, files, before, printed, examined, calls, runs>>

\* The lists of length n over S; a value that is not a list stands with the
\* lists of length 0.
Colls(S, n) == {List(s) : s \in [1..n -> S]} \cup (IF n = 0 THEN {NotIterable} ELSE {})

Fresh ==
    /\ _lk_path = in_lk_path
    /\ pc = "start"
    /\ valid = FALSE
    /\ lkscript = <<>>
    /\ full_path = NonePath
    /\ lk_path = Unassigned
    /\ before = files
    /\ printed = <<>>
    /\ examined = <<>>
    /\ calls = <<>>
    /\ runs = 1

Init ==
    /\ \E na \in 0..MaxTotal : \E nb \in 0..(MaxTotal - na) : \E nt \in 0..(MaxTotal - na - nb) :
          /\ arrays \in Colls(ArrayElems, na)
          /\ buildings \in Colls(BuildingElems, nb)
          /\ trees \in Colls(TreeElems, nt)
    /\ in_lk_path \in InputPaths
    /\ _write_lk \in BOOLEAN
    /\ files \in {[t \in Targets |-> NoFile], [t \in Targets |-> OldFile]}
    /\ Fresh

\* One array whose normal ranges over the grid; a normal with no horizontal
\* part is left out (its azimuth is the angle to a zero vector).
GridNormals ==
    {Vec(x, y, z) : x \in -MaxCoord..MaxCoord, y \in -MaxCoord..MaxCoord, z \in -MaxCoord..MaxCoord}
        \ {Vec(0, 0, z) : z \in -MaxCoord..MaxCoord}

InitNormals ==
    /\ \E n \in GridNormals : arrays = List(<<Geom("Surface", 1, TRUE, TRUE, n)>>)
    /\ buildings = List(<<>>)
    /\ trees = List(<<>>)
    /\ in_lk_path = NonePath
    /\ _write_lk = TRUE
    /\ files = [t \in Targets |-> NoFile]
    /\ Fresh

\* Lines 137-143.
Validate ==
    /\ pc = "start"
    /\ LET r == validate_inputs(trees, arrays, buildings) IN
       /\ valid' = r.ok
       /\ examined' = r.examined
       /\ printed' = Append(r.printed,
                            Msg(IF r.ok THEN "Input validation successful"
                                ELSE "Input validation failed. Please correct the inputs.",
                                NoIndex))
    /\ lkscript' = Placeholder
    /\ pc' = "validated"
    /\ UNCHANGED <<inputs, _lk_path, full_path, lk_path, files, before, calls, runs>>

\* Lines 144-152, the branch taken when validation succeeded.
Assemble ==
    /\ pc = "validated"
    /\ valid
    /\ lkscript' = assemble(trees, arrays, buildings)
    /\ calls' = assemble_calls(trees, arrays, buildings)
    /\ pc' = "assembled"
    /\ UNCHANGED <<inputs, _lk_path, valid, full_path, lk_path, files, before, printed,
                   examined, runs>>

\* Lines 155-165.
Write ==
    /\ pc = "assembled" \/ (pc = "validated" /\ ~valid)
    /\ LET path == IF ~Truthy(_lk_path) THEN DefaultPath ELSE _lk_path
           full == abspath(path)
       IN  /\ _lk_path' = path
           /\ full_path' = full
           /\ IF _write_lk
              THEN /\ files' = write_file(files, full, lkscript)
                   /\ printed' = Append(printed, Msg("LK Scene successfully written", NoIndex))
                   /\ lk_path' = Reported(path)
              ELSE /\ lk_path' = NotWritten
                   /\ UNCHANGED <<files, printed>>
    /\ pc' = "done"
    /\ UNCHANGED <<inputs, valid, lkscript, before, examined, calls, runs>>

\* The host runs the script again on the same inputs.
Rerun ==
    /\ pc = "done"
    /\ runs < MaxRuns
    /\ _lk_path' = in_lk_path
    /\ pc' = "start"
    /\ valid' = FALSE
    /\ lkscript' = <<>>
    /\ full_path' = NonePath
    /\ lk_path' = Unassigned
    /\ before' = files
    /\ printed' = <<>>
    /\ examined' = <<>>
    /\ calls' = <<>>
    /\ runs' = runs + 1
    /\ UNCHANGED <<inputs, files>>

Next == Validate \/ Assemble \/ Write \/ Rerun

Spec == Init /\ [][Next]_vars

SpecNormals == InitNormals /\ [][Next]_vars

\* ----------------------------------------------------------------- claims
Ran        == pc # "start"
Assembled  == pc \in {"assembled", "done"} /\ valid
AllLists   == trees.iter /\ arrays.iter /\ buildings.iter
Range(seq) == {seq[i] : i \in DOMAIN seq}
Target     == IF Truthy(in_lk_path) THEN in_lk_path ELSE DefaultPath

\* What each collection requires of an element, stated on the element itself.
TreeFails(e)     == e.kind # "Point3d"
ArrayFails(e)    ==
    \/ e.kind \notin {"Surface", "Brep"}
    \/ ~e.IsValid
    \/ (e.cp /\ e.normal.Z < 0)
BuildingFails(e) == e.kind # "Box" \/ ~e.IsValid

SomeElementFails ==
    \/ \E i \in DOMAIN trees.items : TreeFails(trees.items[i])
    \/ \E i \in DOMAIN arrays.items : ArrayFails(arrays.items[i])
    \/ \E i \in DOMAIN buildings.items : BuildingFails(buildings.items[i])

\* C1: when validation fails, the run leaves every file as it was before the
\* run, whatever the write flag and the target path are.
C1_FailedRunLeavesFileUntouched ==
    (pc = "done" /\ ~valid) => files = before

\* C2: if any element fails its check, the document is exactly the
\* placeholder and no encoder is invoked for any element.
C2_AllOrNothing ==
    (Ran /\ SomeElementFails) =>
        /\ ~valid
        /\ pc # "assembled"
        /\ lkscript = Placeholder
        /\ calls = <<>>

\* C2 witness: a run has ended on inputs whose first array passes its check
\* while a building fails.
C2_Witness ==
    /\ pc = "done"
    /\ AllLists
    /\ arrays.items # <<>>
    /\ ~ArrayFails(arrays.items[1])
    /\ \A i \in DOMAIN trees.items : ~TreeFails(trees.items[i])
    /\ \E i \in DOMAIN buildings.items : BuildingFails(buildings.items[i])
    /\ lkscript = Placeholder

Rank(s) ==
    CASE s.cat = "Active surface" -> 1
      [] s.cat = "Box" -> 2
      [] s.cat = "Tree" -> 3
      [] OTHER -> 0

Props(cat) == {i \in DOMAIN lkscript : lkscript[i].stmt = "property" /\ lkscript[i].cat = cat}

\* C3: for inputs that pass validation the document is one clear_scene();
\* first, then the panel, the building and the tree statements, each category
\* in the input order of its collection, and no clear_scene(); later on.
C3_DocumentOrder ==
    Assembled =>
        /\ Len(lkscript) >= 1
        /\ lkscript[1].stmt = "clear_scene"
        /\ \A i \in DOMAIN lkscript : i > 1 => lkscript[i].stmt \in {"create", "property"}
        /\ \A i, j \in DOMAIN lkscript : i < j =>
              /\ Rank(lkscript[i]) <= Rank(lkscript[j])
              /\ (lkscript[i].stmt = "property" /\ lkscript[j].stmt = "property"
                    /\ lkscript[i].cat = lkscript[j].cat)
                 => lkscript[i].index < lkscript[j].index
        /\ \A i \in DOMAIN lkscript : lkscript[i].stmt = "property" =>
              /\ i > 1
              /\ lkscript[i - 1].stmt = "create"
              /\ lkscript[i - 1].cat = lkscript[i].cat
        /\ {lkscript[i].index : i \in Props("Active surface")}
              = {k - 1 : k \in {k \in DOMAIN arrays.items : arrays.items[k].cp}}
        /\ {lkscript[i].index : i \in Props("Box")} = {k - 1 : k \in DOMAIN buildings.items}
        /\ {lkscript[i].index : i \in Props("Tree")} = {k - 1 : k \in DOMAIN trees.items}
        /\ \A i \in Props("Tree") :
              lkscript[i].attrs[1] = trees.items[lkscript[i].index + 1].X

\* C3 witness: a document with a panel, a building and a tree was assembled.
C3_Witness ==
    /\ Assembled
    /\ Props("Active surface") # {}
    /\ Props("Box") # {}
    /\ Props("Tree") # {}

\* C4: with the write flag set, the file at the absolute form of the target
\* path holds the document and lk_path is that same absolute path.
C4_ReportsResolvedPath ==
    (pc = "done" /\ _write_lk) =>
        /\ full_path = abspath(Target)
        /\ files[full_path] = lkscript
        /\ lk_path = Reported(full_path)

IsSurfaceOrBrep(e) == e.kind \in {"Surface", "Brep"}

\* C5 as stated: an array element whose normal has a negative Z makes
\* validation fail, also when the closest-point query did not succeed.
C5_AnyDownwardNormalRejected ==
    (Ran /\ \E i \in DOMAIN arrays.items :
                IsSurfaceOrBrep(arrays.items[i]) /\ arrays.items[i].normal.Z < 0)
        => (~valid /\ lkscript = Placeholder)

\* C5 amended: an array element for which the closest-point query succeeds
\* and whose normal there has a negative Z makes validation fail, whatever
\* the other elements are; only the placeholder is produced.
C5_LocatedDownwardNormalRejected ==
    (Ran /\ \E i \in DOMAIN arrays.items :
                /\ IsSurfaceOrBrep(arrays.items[i])
                /\ arrays.items[i].cp
                /\ arrays.items[i].normal.Z < 0)
        => (~valid /\ lkscript = Placeholder /\ calls = <<>>)

\* C5 witness: a run has ended on lists whose only failing element is an
\* array with a located downward normal.
C5_Witness ==
    /\ pc = "done"
    /\ AllLists
    /\ \A i \in DOMAIN trees.items : ~TreeFails(trees.items[i])
    /\ \A i \in DOMAIN buildings.items : ~BuildingFails(buildings.items[i])
    /\ \E i \in DOMAIN arrays.items :
          /\ arrays.items[i].kind = "Surface"
          /\ arrays.items[i].IsValid
          /\ arrays.items[i].cp
          /\ arrays.items[i].normal.Z < 0
    /\ ~valid

SurfaceLike(e) == e.kind = "Surface" \/ (e.kind = "Brep" /\ e.faces = 1)

\* C6: an array element that is neither a surface nor a solid with exactly
\* one face makes validation fail, and when it is examined it is the type
\* check that rejects it, reporting its index.
C6_OnlySingleFaceBrepAccepted ==
    \A i \in DOMAIN arrays.items :
        (Ran /\ AllLists /\ ~SurfaceLike(arrays.items[i])) =>
            /\ ~valid
            /\ Seen("arrays", i - 1) \in Range(examined)
                  => Msg("Array is not a Rhino Surface or Brep", i - 1) \in Range(printed)

Creates(cat) == {i \in DOMAIN lkscript : lkscript[i].stmt = "create" /\ lkscript[i].cat = cat}

\* C7: for inputs that pass validation there are as many Active surface
\* statements as arrays whose closest-point query succeeds, as many Box
\* statements as buildings and as many Tree statements as trees.
C7_StatementCounts ==
    Assembled =>
        /\ Cardinality(Creates("Active surface"))
              = Len(arrays.items) - Cardinality({k \in DOMAIN arrays.items : ~arrays.items[k].cp})
        /\ Cardinality(Creates("Box")) = Len(buildings.items)
        /\ Cardinality(Creates("Tree")) = Len(trees.items)

\* C7 witness: a document was assembled from arrays whose first one is
\* skipped and followed by further elements.
C7_Witness ==
    /\ Assembled
    /\ Len(arrays.items) >= 2
    /\ ~arrays.items[1].cp
    /\ arrays.items[2].cp
    /\ Len(buildings.items) + Len(trees.items) >= 1
    /\ Cardinality(Creates("Active surface")) = 1

\* C8: a further run on the same inputs and target path with the write flag
\* set leaves every file as the run before it left it.
C8_RerunKeepsFile ==
    (pc = "done" /\ runs >= 2 /\ _write_lk) => files = before

\* C8 witness: the second run has written a document of several statements.
C8_Witness ==
    /\ pc = "done"
    /\ runs = 2
    /\ _write_lk
    /\ valid
    /\ Len(lkscript) >= 3
    /\ files[full_path] = lkscript

\* C9: the Azimuth of every panel lies in [0, 360) and its Tilt in [0, 180].
C9_AzimuthBelow360 ==
    \A i \in Props("Active surface") :
        /\ 0 <= lkscript[i].attrs[3] /\ lkscript[i].attrs[3] < 360
        /\ 0 <= lkscript[i].attrs[4] /\ lkscript[i].attrs[4] <= 180

\* The elements in the order trees, arrays, buildings.
InOrder ==
    [i \in DOMAIN trees.items |-> [seen |-> Seen("trees", i - 1), bad |-> TreeFails(trees.items[i])]]
    \o [i \in DOMAIN arrays.items |-> [seen |-> Seen("arrays", i - 1), bad |-> ArrayFails(arrays.items[i])]]
    \o [i \in DOMAIN buildings.items |->
            [seen |-> Seen("buildings", i - 1), bad |-> BuildingFails(buildings.items[i])]]

FirstBad == CHOOSE k \in DOMAIN InOrder : InOrder[k].bad /\ \A j \in 1..(k - 1) : ~InOrder[j].bad

ErrorsOf(coll) ==
    CASE coll = "trees" -> {"Tree is not a Rhino Point3d"}
      [] coll = "arrays" -> {"Array is not a Rhino Surface or Brep", "Surface is not valid",
                             "Surface has a normal pointing in a negative direction"}
      [] coll = "buildings" -> {"Building is not a Rhino Box", "Building is not a valid Box"}

\* C10: the lists are checked in the order trees, arrays, buildings, each in
\* input order; the one element error printed names the first violating
\* element, and no element after it is examined.
C10_FirstViolationReported ==
    (Ran /\ AllLists /\ SomeElementFails) =>
        /\ examined = [k \in 1..FirstBad |-> InOrder[k].seen]
        /\ {k \in DOMAIN printed : printed[k].index # NoIndex} = {1}
        /\ printed[1].index = InOrder[FirstBad].seen.index
        /\ printed[1].text \in ErrorsOf(InOrder[FirstBad].seen.coll)

\* C10 witness: a run has ended on a tree, an array and a building that all
\* violate.
C10_Witness ==
    /\ pc = "done"
    /\ AllLists
    /\ \E i \in DOMAIN trees.items : TreeFails(trees.items[i])
    /\ \E i \in DOMAIN arrays.items : ArrayFails(arrays.items[i])
    /\ \E i \in DOMAIN buildings.items : BuildingFails(buildings.items[i])
    /\ examined = <<Seen("trees", 0)>>

====
